---- MODULE Spec2Model ----
(***************************************************************************)
(* A model of ncps/torch/cfc_cell.py: the CfCCell constructor, its         *)
(* init_weights pass, change_neuromodulation_network and forward.          *)
(*                                                                         *)
(* Tensors are modelled by their shape (a sequence of dimension sizes),    *)
(* parameters by shape + how their data was last initialised + the         *)
(* requires_grad flag, and computed values by the term that produced them  *)
(* (which inputs, which network, which dropout masks).  Python exceptions  *)
(* are modelled by the name of the exception class that reaches the        *)
(* caller.                                                                 *)
(***************************************************************************)
EXTENDS Integers, Sequences, FiniteSets, TLC

\* ---------------------------------------------------------------- bounds
MaxHidden == 2    \* hidden_size, network widths and neuromod input widths
MaxLayers == 2    \* backbone_layers
MaxBatch  == 2    \* batch sizes of the tensors handed to forward
MaxTuple  == 3    \* length of a tuple handed to forward

InputSizes      == {1}                               \* input_size
BackboneUnits   == {1}                               \* backbone_units
ActivationNames == {"lecun_tanh", "swish"}           \* "swish" is not a known name
ModeNames       == {"default", "pure", "no_gate", "neuromodulated", "cfc"}
DropoutPercent  == {0, 50}                           \* backbone_dropout, in percent
TsValues        == {1}
MaskValues      == {0, 1}                            \* which dropout mask was drawn

\* ------------------------------------------------------- tensors, shapes
ShapeError == <<-1>>

Max(a, b) == IF a > b THEN a ELSE b

\* numpy/torch broadcasting of two shapes (right aligned, 1 stretches)
Broadcast(s, t) ==
    IF s = ShapeError \/ t = ShapeError THEN ShapeError
    ELSE LET n  == Max(Len(s), Len(t))
             ds == [i \in 1..n |-> IF i > n - Len(s) THEN s[i - (n - Len(s))] ELSE 1]
             dt == [i \in 1..n |-> IF i > n - Len(t) THEN t[i - (n - Len(t))] ELSE 1]
         IN  IF \A i \in 1..n : ds[i] = dt[i] \/ ds[i] = 1 \/ dt[i] = 1
             THEN [i \in 1..n |-> Max(ds[i], dt[i])]
             ELSE ShapeError

\* torch.cat([a, b], 1) on shapes
Cat1(s, t) ==
    IF Len(s) = 2 /\ Len(t) = 2 /\ s[1] = t[1]
    THEN <<s[1], s[2] + t[2]>>
    ELSE ShapeError

\* numpy .T on a 2-D shape
Transpose(s) == <<s[2], s[1]>>

\* ------------------------------------------------------ modules, values
\* a module that can be stored as the neuromodulation network
Network(layers, src) == [layers |-> layers, src |-> src, training |-> TRUE]
NoNetwork == [layers |-> <<>>, src |-> "absent", training |-> FALSE]

\* a computed value: its shape, the module that computed it and the dropout
\* masks that were drawn while computing it
Term(shape, net, masks) == [shape |-> shape, net |-> net, masks |-> masks]
NoTerm == Term(<<>>, NoNetwork, <<>>)

\* torch.nn.Parameter(data, requires_grad); data is described by its shape and
\* by what initialised it
Param(shape, init, rg) == [shape |-> shape, init |-> init, requires_grad |-> rg]
NoParam == Param(<<>>, "absent", FALSE)

\* the tau_system parameter, whose data forward overwrites: also the term the
\* data was computed from
Buffer(shape, init, rg, from) ==
    [shape |-> shape, init |-> init, requires_grad |-> rg, from |-> from]
NoBuffer == Buffer(<<>>, "absent", FALSE, NoTerm)

Layer(kind, in, out, fn, p) ==
    [kind |-> kind, in |-> in, out |-> out, fn |-> fn, p |-> p,
     weight |-> IF kind = "Linear" THEN Param(<<out, in>>, "kaiming", TRUE) ELSE NoParam,
     bias   |-> IF kind = "Linear" THEN Param(<<out>>, "uniform", TRUE) ELSE NoParam]

Linear(in, out)  == Layer("Linear", in, out, "", 0)
Activation(fn)   == Layer("Activation", 0, 0, fn, 0)
Dropout(p)       == Layer("Dropout", 0, 0, "", p)
NoLinear         == Layer("absent", 0, 0, "", 0)

\* nn.Linear applied to a tensor of the given shape
LinearShape(l, shape) ==
    IF shape # ShapeError /\ Len(shape) >= 1 /\ shape[Len(shape)] = l.in
    THEN [shape EXCEPT ![Len(shape)] = l.out]
    ELSE ShapeError

\* nn.Sequential(*layers) applied to a tensor of the given shape
RECURSIVE SeqShape(_, _, _)
SeqShape(layers, shape, i) ==
    IF i > Len(layers) THEN shape
    ELSE IF layers[i].kind = "Linear"
         THEN SeqShape(layers, LinearShape(layers[i], shape), i + 1)
         ELSE SeqShape(layers, shape, i + 1)

\* the Dropout layers that draw a random mask when the module is evaluated
DropoutIdx(layers, training) ==
    IF training THEN {i \in DOMAIN layers : layers[i].kind = "Dropout" /\ layers[i].p > 0}
    ELSE {}

\* LeCun and the backbone_activation if-chain of the constructor
ActivationClass(name) ==
    CASE name = "silu"       -> "SiLU"
      [] name = "relu"       -> "ReLU"
      [] name = "tanh"       -> "Tanh"
      [] name = "gelu"       -> "GELU"
      [] name = "lecun_tanh" -> "LeCun"
      [] OTHER               -> "unknown"

\* ------------------------------------------------------------ the cell
None == [isNone |-> TRUE, v |-> <<>>]
Some(v) == [isNone |-> FALSE, v |-> v]

allowed_modes == {"default", "pure", "no_gate", "neuromodulated"}

NoCell ==
    [input_size |-> 0, hidden_size |-> 0, mode |-> "", training |-> FALSE,
     neuromod_network_dims |-> None, sparsity_mask |-> NoParam,
     backbone |-> <<>>, backbone_layers |-> 0,
     ff1 |-> NoLinear, ff2 |-> NoLinear, time_a |-> NoLinear, time_b |-> NoLinear,
     w_tau |-> NoParam, A |-> NoParam, neuromod |-> NoNetwork, tau_system |-> NoBuffer]

\* the value forward returns (twice): its shape, the update formula that
\* produced it, ts, the backbone output x, whether ff1 used the masked weight
\* and the neuromodulation signal that drove the decay
Out(shape, formula, ts, x, masked, signal) ==
    [shape |-> shape, formula |-> formula, ts |-> ts, x |-> x,
     masked |-> masked, signal |-> signal]
NoOut == Out(<<>>, "", 0, NoTerm, FALSE, NoTerm)

\* what an operation hands back: the exception class that reached the caller
\* ("ok" when none did), the cell afterwards and the returned value
Outcome(result, c, out, probed) ==
    [result |-> result, cell |-> c, out |-> out, probed |-> probed]

\* the layer list of the backbone (an empty list when backbone_layers is 0)
BackboneMutDropoutEveryBlock(input_size, hidden_size, units, layers, act, dropout) ==
    IF layers > 0
    THEN LET block(i) == <<Linear(IF i = 0 THEN input_size + hidden_size ELSE units, units),
                           Activation(act)>>
                         \o (IF dropout > 0 THEN <<Dropout(dropout)>> ELSE <<>>)
             F[i \in 0..layers] == IF i = layers THEN <<>> ELSE block(i) \o F[i + 1]
         IN  F[0]
    ELSE <<>>

Backbone(input_size, hidden_size, units, layers, act, dropout) ==
    IF layers > 0
    THEN LET block(i) == <<Linear(units, units), Activation(act)>>
                         \o (IF dropout > 0 THEN <<Dropout(dropout)>> ELSE <<>>)
             F[i \in 1..layers] == IF i = layers THEN <<>> ELSE block(i) \o F[i + 1]
         IN  <<Linear(input_size + hidden_size, units), Activation(act)>> \o F[1]
    ELSE <<>>

\* the neuromodulation network the constructor builds from neuromod_network_dims
NeuromodLayers(dims, act) ==
    LET F[i \in 1..Len(dims)] ==
            IF i >= Len(dims) THEN <<>>
            ELSE <<Linear(dims[i], dims[i + 1]), Activation(act)>> \o F[i + 1]
    IN  IF Len(dims) = 0 THEN <<>> ELSE F[1]

\* torch.nn.init.xavier_uniform_ on the parameters init_weights selects
Xavier(w) ==
    IF Len(w.shape) = 2 /\ w.requires_grad THEN [w EXCEPT !.init = "xavier"] ELSE w

XavierLayers(layers) ==
    [i \in DOMAIN layers |->
        [layers[i] EXCEPT !.weight = Xavier(@), !.bias = Xavier(@)]]

\* init_weights: the loop over self.parameters()
init_weights(c) ==
    [c EXCEPT !.sparsity_mask = Xavier(@),
              !.backbone = XavierLayers(@),
              !.ff1 = [@ EXCEPT !.weight = Xavier(@), !.bias = Xavier(@)],
              !.ff2 = [@ EXCEPT !.weight = Xavier(@), !.bias = Xavier(@)],
              !.time_a = [@ EXCEPT !.weight = Xavier(@), !.bias = Xavier(@)],
              !.time_b = [@ EXCEPT !.weight = Xavier(@), !.bias = Xavier(@)],
              !.w_tau = Xavier(@),
              !.A = Xavier(@),
              !.neuromod = [@ EXCEPT !.layers = XavierLayers(@)],
              !.tau_system = Xavier(@)]

\* CfCCell.__init__; a is the record of its arguments
CfCCell(a) ==
    LET act       == ActivationClass(a.backbone_activation)
        cat_shape == IF a.backbone_layers = 0 THEN a.hidden_size + a.input_size
                     ELSE a.backbone_units
        dims      == a.neuromod_network_dims
        base ==
            [NoCell EXCEPT
                !.input_size = a.input_size,
                !.hidden_size = a.hidden_size,
                !.training = TRUE,
                !.sparsity_mask =
                    IF a.sparsity_mask.isNone THEN NoParam
                    ELSE Param(Transpose(a.sparsity_mask.v), "abs_mask", FALSE),
                !.mode = a.mode,
                !.neuromod_network_dims = dims,
                !.backbone = Backbone(a.input_size, a.hidden_size, a.backbone_units,
                                      a.backbone_layers, act, a.backbone_dropout),
                !.backbone_layers = a.backbone_layers,
                !.ff1 = Linear(cat_shape, a.hidden_size),
                !.tau_system = Buffer(<<a.hidden_size>>, "ones", FALSE, NoTerm)]
        pure ==
            [base EXCEPT !.w_tau = Param(<<1, a.hidden_size>>, "zeros", TRUE),
                         !.A = Param(<<1, a.hidden_size>>, "ones", TRUE)]
        neuro ==
            [pure EXCEPT !.neuromod = Network(NeuromodLayers(dims.v, "Tanh"), "constructed")]
        cfc ==
            [base EXCEPT !.ff2 = Linear(cat_shape, a.hidden_size),
                         !.time_a = Linear(cat_shape, a.hidden_size),
                         !.time_b = Linear(cat_shape, a.hidden_size)]
        fail(e) == Outcome(e, NoCell, NoOut, FALSE)
    IN  IF a.mode \notin allowed_modes THEN fail("ValueError")
        ELSE IF act = "unknown" THEN fail("ValueError")
        ELSE IF a.mode = "neuromodulated"
             THEN IF dims.isNone THEN fail("AssertionError")
                  ELSE IF Len(dims.v) = 0 THEN fail("IndexError")
                  ELSE IF dims.v[Len(dims.v)] # a.hidden_size THEN fail("AssertionError")
                  ELSE Outcome("ok", init_weights(neuro), NoOut, FALSE)
        ELSE IF a.mode = "pure" THEN Outcome("ok", init_weights(pure), NoOut, FALSE)
        ELSE Outcome("ok", init_weights(cfc), NoOut, FALSE)

\* change_neuromodulation_network storing the network before it is validated
change_StoreBeforeCheck(c, network) ==
    IF c.mode # "neuromodulated" THEN Outcome("AssertionError", c, NoOut, FALSE)
    ELSE LET dims == c.neuromod_network_dims.v
             output == SeqShape(network.layers, <<1, dims[1]>>, 1)
             stored == [c EXCEPT !.neuromod = network]
         IN  IF output = ShapeError \/ Len(output) < 2 \/ output[2] # dims[Len(dims)]
             THEN Outcome("ValueError", stored, NoOut, TRUE)
             ELSE Outcome("ok", stored, NoOut, TRUE)

\* change_neuromodulation_network checking the mode only after the validation
change_ModeCheckLast(c, network) ==
    IF c.neuromod_network_dims.isNone \/ Len(c.neuromod_network_dims.v) = 0
    THEN Outcome("TypeError", c, NoOut, FALSE)
    ELSE LET dims == c.neuromod_network_dims.v
             output == SeqShape(network.layers, <<1, dims[1]>>, 1)
         IN  IF output = ShapeError \/ Len(output) < 2 \/ output[2] # dims[Len(dims)]
             THEN Outcome("ValueError", c, NoOut, TRUE)
             ELSE IF c.mode # "neuromodulated"
                  THEN Outcome("AssertionError", c, NoOut, TRUE)
                  ELSE Outcome("ok", [c EXCEPT !.neuromod = network], NoOut, TRUE)

\* change_neuromodulation_network also resetting the tau_system buffer
change_ResetTau(c, network) ==
    IF c.mode # "neuromodulated" THEN Outcome("AssertionError", c, NoOut, FALSE)
    ELSE LET dims == c.neuromod_network_dims.v
             output == SeqShape(network.layers, <<1, dims[1]>>, 1)
         IN  IF output = ShapeError \/ Len(output) < 2 \/ output[2] # dims[Len(dims)]
             THEN Outcome("ValueError", c, NoOut, TRUE)
             ELSE Outcome("ok",
                    [c EXCEPT !.neuromod = network,
                              !.tau_system = Buffer(<<c.hidden_size>>, "ones", FALSE, NoTerm)],
                    NoOut, TRUE)

\* change_neuromodulation_network without the check of the output width
change_NoWidthCheck(c, network) ==
    IF c.mode # "neuromodulated" THEN Outcome("AssertionError", c, NoOut, FALSE)
    ELSE LET dims == c.neuromod_network_dims.v
             output == SeqShape(network.layers, <<1, dims[1]>>, 1)
         IN  IF output = ShapeError
             THEN Outcome("ValueError", c, NoOut, TRUE)
             ELSE Outcome("ok", [c EXCEPT !.neuromod = network], NoOut, TRUE)

\* CfCCell.change_neuromodulation_network
change_neuromodulation_network(c, network) ==
    IF c.mode # "neuromodulated" THEN Outcome("AssertionError", c, NoOut, FALSE)
    ELSE LET dims == c.neuromod_network_dims.v
             correct_input_size == dims[1]
             input_tensor == <<1, correct_input_size>>
             output == SeqShape(network.layers, input_tensor, 1)
         IN  IF output = ShapeError             \* network(input_tensor) raises
                \/ Len(output) < 2              \* output.shape[1] raises
                \/ output[2] # dims[Len(dims)]  \* the assert fails
             THEN Outcome("ValueError", c, NoOut, TRUE)
             ELSE Outcome("ok", [c EXCEPT !.neuromod = network], NoOut, TRUE)

\* F.linear(x, self.ff.weight * self.sparsity_mask, self.ff.bias) or self.ff(x)
MaskedLinearShape(c, ff, x) ==
    IF c.sparsity_mask # NoParam
    THEN LET w == Broadcast(ff.weight.shape, c.sparsity_mask.shape)
         IN  IF w = ShapeError \/ Len(w) # 2 THEN ShapeError
             ELSE LinearShape([in |-> w[2], out |-> w[1]], x)
    ELSE LinearShape(ff, x)

\* self.tau_system.data = 1.0 / (torch.abs(self.w_tau) + torch.abs(...)), with an
\* in-place abs_() on w_tau instead of torch.abs
StoreTauAbsInPlace(c, decay, net, masks) ==
    [c EXCEPT !.w_tau = [@ EXCEPT !.init = "abs"],
              !.tau_system = [@ EXCEPT !.shape = decay, !.init = "computed",
                                       !.from = Term(decay, net, masks)]]

\* self.tau_system.data = 1.0 / (torch.abs(self.w_tau) + torch.abs(...)): the
\* data of the parameter is replaced, the parameter and its flags stay
StoreTau(c, decay, net, masks) ==
    [c EXCEPT !.tau_system = [@ EXCEPT !.shape = decay, !.init = "computed",
                                       !.from = Term(decay, net, masks)]]

\* CfCCell.forward; noise holds the masks the Dropout layers draw in this call
forward(c, input, hx, ts, noise) ==
    LET neuro == c.mode = "neuromodulated"
        fail(e) == Outcome(e, c, NoOut, FALSE)
    IN
    IF neuro /\ input.kind # "tuple" THEN fail("AssertionError")
    ELSE IF neuro /\ Len(input.elems) < 1 THEN fail("IndexError")
    ELSE IF ~neuro /\ input.kind # "tensor" THEN fail("TypeError")
    ELSE
    LET x0   == Cat1(input.elems[1], hx)
        xs   == IF c.backbone_layers > 0 THEN SeqShape(c.backbone, x0, 1) ELSE x0
        x    == Term(xs, NoNetwork,
                     IF c.backbone_layers > 0 THEN noise.backbone ELSE <<>>)
        masked == c.sparsity_mask # NoParam
        ff1  == MaskedLinearShape(c, c.ff1, xs)
    IN
    IF x0 = ShapeError \/ xs = ShapeError \/ ff1 = ShapeError THEN fail("RuntimeError")
    ELSE IF c.mode = "pure"
    THEN LET decay == Broadcast(c.w_tau.shape, ff1)
             new_hidden == Broadcast(Broadcast(c.A.shape, Broadcast(decay, ff1)), c.A.shape)
         IN  IF new_hidden = ShapeError THEN fail("RuntimeError")
             ELSE Outcome("ok", StoreTau(c, decay, NoNetwork, x.masks),
                    Out(new_hidden, "pure", ts, x, masked, NoTerm), FALSE)
    ELSE IF c.mode = "neuromodulated"
    THEN IF Len(input.elems) < 2 THEN fail("IndexError")
         ELSE
         LET sig == SeqShape(c.neuromod.layers, input.elems[2], 1)
             neuromod_signal == Term(sig, c.neuromod, noise.neuromod)
             decay == Broadcast(c.w_tau.shape, sig)
             new_hidden == Broadcast(Broadcast(c.A.shape, Broadcast(decay, ff1)), c.A.shape)
         IN  IF sig = ShapeError \/ new_hidden = ShapeError THEN fail("RuntimeError")
             ELSE Outcome("ok", StoreTau(c, decay, c.neuromod, noise.neuromod),
                    Out(new_hidden, "neuromodulated", ts, x, masked, neuromod_signal),
                    FALSE)
    ELSE LET ff2 == MaskedLinearShape(c, c.ff2, xs)
             t_a == LinearShape(c.time_a, xs)
             t_b == LinearShape(c.time_b, xs)
             t_interp == Broadcast(t_a, t_b)
             new_hidden == Broadcast(ff1, Broadcast(t_interp, ff2))
         IN  IF new_hidden = ShapeError THEN fail("RuntimeError")
             ELSE Outcome("ok", c,
                    Out(new_hidden, c.mode, ts, x, masked, NoTerm), FALSE)

\* ------------------------------------------------------- the state machine
VARIABLES
    built,    \* TRUE once a constructor call has returned a cell
    config,   \* the arguments of the last constructor call
    cell,     \* the attributes of the cell (NoCell while none is built)
    op,       \* the last operation called
    args,     \* its arguments (for forward and the replacement)
    result,   \* "ok", or the exception class it raised
    out,      \* the value forward returned
    probed,   \* TRUE iff the replacement evaluated its network argument
    repeated  \* TRUE iff the last call repeated the call before it

vars == <<built, config, cell, op, args, result, out, probed, repeated>>

NoArgs == [input |-> [kind |-> "", elems |-> <<>>], hx |-> <<>>, ts |-> 0,
           network |-> NoNetwork]

NoConfig ==
    [input_size |-> 0, hidden_size |-> 0, mode |-> "", backbone_activation |-> "",
     backbone_units |-> 0, backbone_layers |-> 0, backbone_dropout |-> 0,
     sparsity_mask |-> None, neuromod_network_dims |-> None]

\* the values of neuromod_network_dims a caller passes: every shape of the
\* argument with mode "neuromodulated", absent or given with the other modes
DimsChoices(mode, hidden_size) ==
    IF mode = "neuromodulated"
    THEN {None, Some(<<>>)}
         \cup {Some(<<h>>) : h \in 1..MaxHidden}
         \cup {Some(<<1, h>>) : h \in 1..MaxHidden}
    ELSE {None, Some(<<1, hidden_size>>)}

\* the modules a caller hands to change_neuromodulation_network: one affine
\* layer, with or without a Dropout layer behind it
SuppliedNetworks ==
    {Network(<<Linear(a, o)>>, "supplied") : a \in 1..MaxHidden, o \in 1..MaxHidden}
    \cup
    {Network(<<Linear(a, o), Dropout(50)>>, "supplied") :
        a \in 1..MaxHidden, o \in 1..MaxHidden}

\* the inputs a caller hands to forward: a tensor, a list of two tensors or a
\* tuple of n tensors
ForwardInputs(input_size) ==
    LET elems(n, b, nb, nw) ==
            [i \in 1..n |-> IF i = 1 THEN <<b, input_size>>
                            ELSE IF i = 2 THEN <<nb, nw>> ELSE <<1, 1>>]
    IN  {[kind |-> "tensor", elems |-> elems(1, b, 1, 1)] : b \in 1..MaxBatch}
        \cup {[kind |-> "list", elems |-> elems(2, b, b, 1)] : b \in 1..MaxBatch}
        \cup {[kind |-> "tuple", elems |-> elems(n, b, b, nw)] :
                n \in 0..MaxTuple, b \in 1..MaxBatch, nw \in 1..MaxHidden}

Init ==
    /\ built = FALSE
    /\ config = NoConfig
    /\ cell = NoCell
    /\ op = "none"
    /\ args = NoArgs
    /\ result = "none"
    /\ out = NoOut
    /\ probed = FALSE
    /\ repeated = FALSE

Construct ==
    /\ op = "none"
    /\ \E input_size \in InputSizes, hidden_size \in 1..MaxHidden, mode \in ModeNames,
          act \in ActivationNames, units \in BackboneUnits, layers \in 0..MaxLayers,
          dropout \in DropoutPercent, useMask \in BOOLEAN :
       \E dims \in DimsChoices(mode, hidden_size) :
        LET cat == IF layers = 0 THEN hidden_size + input_size ELSE units
            a == [input_size |-> input_size, hidden_size |-> hidden_size, mode |-> mode,
                  backbone_activation |-> act, backbone_units |-> units,
                  backbone_layers |-> layers, backbone_dropout |-> dropout,
                  sparsity_mask |-> IF useMask THEN Some(<<cat, hidden_size>>) ELSE None,
                  neuromod_network_dims |-> dims]
            r == CfCCell(a)
        IN  /\ config' = a
            /\ built' = (r.result = "ok")
            /\ cell' = r.cell
            /\ op' = "__init__"
            /\ args' = NoArgs
            /\ result' = r.result
            /\ out' = r.out
            /\ probed' = r.probed
            /\ repeated' = FALSE

Replace ==
    /\ built /\ op = "idle"
    /\ \E network \in SuppliedNetworks :
        LET r == change_neuromodulation_network(cell, network)
        IN  /\ cell' = r.cell
            /\ op' = "change_neuromodulation_network"
            /\ args' = [NoArgs EXCEPT !.network = network]
            /\ result' = r.result
            /\ out' = r.out
            /\ probed' = r.probed
            /\ repeated' = FALSE
            /\ UNCHANGED <<built, config>>

ForwardStep(input, ts, nb, nn) ==
    LET hx == <<IF Len(input.elems) > 0 THEN input.elems[1][1] ELSE 1,
                cell.hidden_size>>
        r == forward(cell, input, hx, ts, [backbone |-> nb, neuromod |-> nn])
    IN  /\ cell' = r.cell
        /\ op' = "forward"
        /\ args' = [NoArgs EXCEPT !.input = input, !.hx = hx, !.ts = ts]
        /\ result' = r.result
        /\ out' = r.out
        /\ probed' = r.probed
        /\ repeated' = (op = "forward")
        /\ UNCHANGED <<built, config>>

Forward ==
    /\ built
    /\ \E input \in ForwardInputs(cell.input_size), ts \in TsValues,
          nb \in [DropoutIdx(cell.backbone, cell.training) -> MaskValues],
          nn \in [DropoutIdx(cell.neuromod.layers, cell.neuromod.training) -> MaskValues] :
        \* a fresh call, or the call just made repeated with the same arguments
        /\ op = "idle" \/ (op = "forward" /\ input = args.input /\ ts = args.ts)
        /\ ForwardStep(input, ts, nb, nn)

\* the caller lets go of what the last call returned or raised; the cell is
\* untouched
DropResult ==
    /\ op \notin {"none", "idle"}
    /\ built
    /\ op' = "idle"
    /\ args' = NoArgs
    /\ result' = "none"
    /\ out' = NoOut
    /\ probed' = FALSE
    /\ repeated' = FALSE
    /\ UNCHANGED <<built, config, cell>>

Next == Construct \/ Replace \/ Forward \/ DropResult

Spec == Init /\ [][Next]_vars

\* ------------------------------------------------------------ the claims
\* the exception classes behind the error kinds
InvalidConfiguration == CfCCell([NoConfig EXCEPT !.mode = "cfc"]).result
InvalidOperation     == "AssertionError"
InvalidInput         == "AssertionError"

NonNeuromodModes == {"default", "pure", "no_gate"}

IsReplace == op' = "change_neuromodulation_network"
IsForward == op' = "forward"

\* input and output width of a supplied network (one affine layer in front)
NetIn(n)  == n.layers[1].in
NetOut(n) == n.layers[1].out

\* everything but the tau_system buffer is the same before and after the step
OnlyTauMayChange == cell' = [cell EXCEPT !.tau_system = cell'.tau_system]

\* C1: in mode "neuromodulated", replacing the network by one that raises on the
\* probe input (wrong input width) or whose output width is not hidden_size
\* fails with InvalidConfiguration (ValueError) and leaves the cell, its stored
\* network included, as it was; a successful forward call evaluates the network
\* the cell stores.
C1_FailedReplaceKeepsNetwork ==
    [][ /\ (/\ IsReplace
            /\ cell.mode = "neuromodulated"
            /\ \/ NetIn(args'.network) # cell.neuromod_network_dims.v[1]
               \/ NetOut(args'.network) # cell.hidden_size)
           => /\ result' = "ValueError"
              /\ result' = InvalidConfiguration
              /\ cell'.neuromod = cell.neuromod
              /\ cell' = cell
        /\ (IsForward /\ result' = "ok" /\ cell.mode = "neuromodulated")
           => out'.signal.net = cell.neuromod
      ]_vars

C1_Witness ==
    /\ op = "change_neuromodulation_network"
    /\ cell.mode = "neuromodulated"
    /\ result = "ValueError"
    /\ NetIn(args.network) = cell.neuromod_network_dims.v[1]
    /\ NetOut(args.network) # cell.hidden_size
    /\ cell.neuromod.src = "supplied"
    /\ cell.neuromod # args.network

\* C2: in the modes "default", "pure" and "no_gate" the replacement fails with
\* InvalidOperation (AssertionError, not the ValueError of InvalidConfiguration)
\* whatever the network, does not evaluate the network and changes no attribute.
C2_ReplaceRejectedOutsideNeuromod ==
    [][ (IsReplace /\ cell.mode \in NonNeuromodModes)
        => /\ result' = InvalidOperation
           /\ result' # InvalidConfiguration
           /\ ~probed'
           /\ cell' = cell
      ]_vars

C2_Witness ==
    /\ op = "change_neuromodulation_network"
    /\ cell.mode = "pure"
    /\ result = "AssertionError"
    /\ ~probed
    /\ ~cell.neuromod_network_dims.isNone
    /\ NetIn(args.network) = cell.neuromod_network_dims.v[1]
    /\ NetOut(args.network) = cell.hidden_size

\* C3: a successful replacement changes the stored network to the supplied one
\* and nothing else (mode, sizes, dims, mask, ff1, w_tau, A, backbone and the
\* tau_system buffer stay), and a forward call computes its decay, and the
\* tau_system it records, from the network the cell stores at that time.
C3_ReplaceSwapsOnlyNetwork ==
    [][ /\ (IsReplace /\ result' = "ok")
           => /\ cell.mode = "neuromodulated"
              /\ cell'.neuromod = args'.network
              /\ cell' = [cell EXCEPT !.neuromod = args'.network]
        /\ (IsForward /\ result' = "ok" /\ cell.mode = "neuromodulated")
           => /\ out'.signal.net = cell'.neuromod
              /\ cell'.tau_system.from.net = cell'.neuromod
      ]_vars

C3_Witness ==
    /\ op = "change_neuromodulation_network"
    /\ result = "ok"
    /\ cell.neuromod = args.network
    /\ cell.tau_system.init = "computed"
    /\ cell.tau_system.from.net # cell.neuromod
    /\ cell.sparsity_mask # NoParam

\* C4: a built cell stores a neuromodulation network iff its mode is
\* "neuromodulated", and the stored network maps inputs of width
\* neuromod_network_dims[0] to outputs of width hidden_size.
C4_NetworkIffNeuromodulated ==
    built =>
        /\ (cell.neuromod # NoNetwork) <=> (cell.mode = "neuromodulated")
        /\ cell.mode = "neuromodulated" =>
             \A b \in 1..MaxBatch :
                SeqShape(cell.neuromod.layers,
                         <<b, cell.neuromod_network_dims.v[1]>>, 1)
                = <<b, cell.hidden_size>>

C4_Witness ==
    /\ built
    /\ cell.mode = "neuromodulated"
    /\ cell.neuromod.src = "supplied"
    /\ op = "change_neuromodulation_network"
    /\ result = "ValueError"
    /\ cell.neuromod_network_dims.v[1] # cell.hidden_size

\* C5: constructing with mode "neuromodulated" and neuromod_network_dims absent,
\* or with a last element other than hidden_size, fails with
\* InvalidConfiguration, the error kind raised for an unknown mode or an unknown
\* activation name, and produces no cell.
C5_BadDimsIsInvalidConfiguration ==
    (/\ op = "__init__"
     /\ config.mode = "neuromodulated"
     /\ \/ config.neuromod_network_dims.isNone
        \/ /\ Len(config.neuromod_network_dims.v) > 0
           /\ config.neuromod_network_dims.v[Len(config.neuromod_network_dims.v)]
              # config.hidden_size)
    => /\ result = InvalidConfiguration
       /\ ~built

\* C6: in mode "neuromodulated" a forward input that is not a 2-tuple (a tensor,
\* a list, a tuple of another length) fails with InvalidInput and leaves the
\* cell unchanged; in the other modes a single tensor is accepted.
C6_NonPairInputRejected ==
    [][ /\ (/\ IsForward
            /\ cell.mode = "neuromodulated"
            /\ ~(args'.input.kind = "tuple" /\ Len(args'.input.elems) = 2))
           => (result' = InvalidInput /\ cell' = cell)
        /\ (IsForward /\ cell.mode \in NonNeuromodModes /\ args'.input.kind = "tensor")
           => result' = "ok"
      ]_vars

\* the same with a tuple of any length from 2 on accepted: only a non-tuple is
\* InvalidInput
C6_Observed ==
    [][ (IsForward /\ cell.mode = "neuromodulated")
        => /\ args'.input.kind # "tuple" => (result' = InvalidInput /\ cell' = cell)
           /\ (args'.input.kind = "tuple" /\ Len(args'.input.elems) < 2)
              => (result' = "IndexError" /\ cell' = cell)
           /\ (args'.input.kind = "tuple" /\ Len(args'.input.elems) > 2)
              => result' \in {"ok", "RuntimeError"}
      ]_vars

\* C7 as stated: for every accepted configuration, a forward call repeated with
\* the same (input, hidden, ts) returns the same output, and only the
\* tau_system buffer may differ.
C7_ForwardIdempotent ==
    [][ (op = "forward" /\ result = "ok" /\ IsForward /\ args' = args)
        => (result' = "ok" /\ out' = out /\ OnlyTauMayChange)
      ]_vars

\* C7 amended: the same for the configurations whose backbone holds no Dropout
\* layer (backbone_layers <= 1 or backbone_dropout = 0) and whose stored
\* neuromodulation network holds none.
C7_ForwardIdempotentWithoutDropout ==
    [][ (/\ op = "forward" /\ result = "ok" /\ IsForward /\ args' = args
         /\ (config.backbone_layers <= 1 \/ config.backbone_dropout = 0)
         /\ \A i \in DOMAIN cell.neuromod.layers :
               cell.neuromod.layers[i].kind # "Dropout")
        => (result' = "ok" /\ out' = out /\ OnlyTauMayChange)
      ]_vars

C7_Witness ==
    /\ op = "forward" /\ result = "ok" /\ repeated
    /\ config.backbone_layers = 1
    /\ config.backbone_dropout > 0
    /\ cell.mode = "neuromodulated"

\* C8: at the end of construction in mode "pure" or "neuromodulated", w_tau is
\* all zeros and A all ones: init_weights leaves them out.
C8_TauAndAKeepConstants ==
    (op = "__init__" /\ built /\ cell.mode \in {"pure", "neuromodulated"})
    => (cell.w_tau.init = "zeros" /\ cell.A.init = "ones")

\* C9: forward changes nothing of the cell but the tau_system buffer (no
\* parameter, not the mask, the mode or the stored network); a successful call
\* in the modes "pure" and "neuromodulated" overwrites the buffer with the value
\* of that call, a call in the modes "default" and "no_gate" leaves it.
C9_ForwardWritesOnlyTau ==
    [][ IsForward
        => /\ OnlyTauMayChange
           /\ (result' = "ok" /\ cell.mode = "pure")
              => /\ cell'.tau_system.init = "computed"
                 /\ cell'.tau_system.from.masks = out'.x.masks
                 /\ cell'.tau_system.from.net = NoNetwork
           /\ (result' = "ok" /\ cell.mode = "neuromodulated")
              => /\ cell'.tau_system.init = "computed"
                 /\ cell'.tau_system.from.masks = out'.signal.masks
                 /\ cell'.tau_system.from.net = out'.signal.net
           /\ cell.mode \in {"default", "no_gate"}
              => cell'.tau_system = cell.tau_system
      ]_vars

C9_Witness ==
    /\ op = "forward" /\ result = "ok"
    /\ cell.mode = "pure"
    /\ cell.tau_system.init = "computed"
    /\ cell.sparsity_mask # NoParam
    /\ cell.w_tau.init = "xavier"

\* C10: in every reachable state the tau_system buffer has one entry per hidden
\* unit (shape (hidden_size,)) and is not trainable.
C10_TauSystemIsPerUnitVector ==
    built => /\ cell.tau_system.shape = <<cell.hidden_size>>
             /\ ~cell.tau_system.requires_grad

====
